---- MODULE Spec2Model ----
(***************************************************************************)
(* Model of two programs of the rekor repository:                          *)
(*   cmd/backfill-redis/main.go   the reverse-index backfill (main)        *)
(*   cmd/rekor-server/app/flags.go  the shard-range flag (LogRangesFlag)   *)
(***************************************************************************)
EXTENDS Integers, Sequences, FiniteSets, TLC

VARIABLES
    \* ---- backfill-redis: command line, collaborators, position in main ----
    redisAddress,   \* flag "address"
    redisPort,      \* flag "port"
    startIndex,     \* flag "start"
    endIndex,       \* flag "end"
    rekorAddress,   \* flag "rekor-address"
    rekorLog,       \* what the Rekor server holds: index -> set of uuids
    redis,          \* the Redis lists: key -> sequence of values, head first
    redis0,         \* the Redis lists before the first run of the process
    redisAtExec,    \* the Redis lists when the running process was started
    run,            \* how many times the command has been started
    pc,             \* position of the process in main
    i,              \* loop variable of the for loop of main
    payload,        \* pairs of resp.Payload the range loop has yet to visit
    uuid,           \* range variable uuid of the entry being processed
    keys,           \* keys of the entry the inner loop has yet to visit
    success,        \* local variable success
    trace,          \* calls made to collaborators and lines written, in order
    \* ---- rekor-server: the LogRangesFlag value and its last call ----
    flagRanges,     \* l.Ranges.Ranges
    flagPrev,       \* l.Ranges.Ranges before the last call
    flagCall,       \* the last method called on the flag
    flagTokens,     \* the comma-free pieces the last argument was written from
    flagInput,      \* argument s of the last Set
    flagErr,        \* error returned by the last Set
    flagString      \* result of the last String

bvars == <<redisAddress, redisPort, startIndex, endIndex, rekorAddress, rekorLog,
           redis, redis0, redisAtExec, run, pc, i, payload, uuid, keys, success,
           trace>>
fvars == <<flagRanges, flagPrev, flagCall, flagTokens, flagInput, flagErr, flagString>>
vars == <<bvars, fvars>>

(***************************************************************************)
(* Bounds and program constants                                            *)
(***************************************************************************)
\* the Rekor server holds the logical indices 0..MaxIndex
MaxIndex == 2
\* default of the flags "start" and "end": the value main reads as "not set"
UnsetIndex == -1

\* The Go int of startIndex, endIndex and i, scaled down: it reaches from
\* IntMin, below the value read as "not set", to IntMax, one above the last
\* index the log holds, and i++ on IntMax wraps around to IntMin.
IntMin == UnsetIndex - 1
IntMax == MaxIndex + 1
Inc(v) == IF v = IntMax THEN IntMin ELSE v + 1

\* values the flags "start" and "end" are drawn from
IndexVals == IntMin .. IntMax
\* values the string flags are drawn from
AddressVals == {"", "host"}
PortVals == {"", "6379"}
RekorVals == {"", "https://rekor"}

(***************************************************************************)
(* The collaborators of the backfill: the entries a Rekor server can hold  *)
(* and the Redis lists.                                                    *)
(***************************************************************************)
\* the global UUIDs (tree ID and entry UUID) of the entries of the log
UUIDs == {"e1", "e2", "e3"}
\* the Redis keys
Keys == {"k1", "k2"}

\* entry.Body of each entry: whether the base64 text, the proposed-entry
\* envelope and the typed entry decode, and what IndexKeys() gives.
\*   e1 decodes and yields two keys, e2 does not decode,
\*   e3 decodes but its IndexKeys() fails.
Body(u) ==
    CASE u = "e1" -> [base64 |-> TRUE, envelope |-> TRUE, impl |-> TRUE,
                      keysOk |-> TRUE, keys |-> <<"k1", "k2">>]
      [] u = "e2" -> [base64 |-> TRUE, envelope |-> FALSE, impl |-> FALSE,
                      keysOk |-> FALSE, keys |-> <<>>]
      [] OTHER    -> [base64 |-> TRUE, envelope |-> TRUE, impl |-> TRUE,
                      keysOk |-> FALSE, keys |-> <<>>]

\* unmarshalEntryImpl: base64, then the envelope, then the typed entry; the
\* first stage that fails is the error returned.
unmarshalEntryImpl(e) ==
    IF ~e.base64 THEN [err |-> TRUE, entry |-> e]
    ELSE IF ~e.envelope THEN [err |-> TRUE, entry |-> e]
    ELSE IF ~e.impl THEN [err |-> TRUE, entry |-> e]
    ELSE [err |-> FALSE, entry |-> e]

\* e.IndexKeys()
IndexKeys(e) == [err |-> ~e.keysOk, keys |-> e.keys]

\* the logs a Rekor server can hold: every index has a set of entries
\* (possibly none), and an entry is stored at one index only.
Logs ==
    {f \in [0 .. MaxIndex -> SUBSET UUIDs] :
        \A a, b \in 0 .. MaxIndex : a # b => f[a] \cap f[b] = {}}

\* resp.Payload of a successful GetLogEntryByIndex(idx)
Payload(idx) == IF idx \in DOMAIN rekorLog THEN rekorLog[idx] ELSE {}

\* Redis with no list, and Redis holding a list written before the backfill
EmptyRedis == [k \in Keys |-> <<>>]
InitialStores == {EmptyRedis, [EmptyRedis EXCEPT !["k1"] = <<"e0">>]}

\* a variant of addToIndex that leaves a value already in the list alone
addToIndex_Dedup(store, key, value) ==
    IF \E p \in 1 .. Len(store[key]) : store[key][p] = value
    THEN store
    ELSE [store EXCEPT ![key] = <<value>> \o @]

\* a variant of addToIndex that puts the value at the tail of the list
addToIndex_Tail(store, key, value) == [store EXCEPT ![key] = Append(@, value)]

\* addToIndex: LPUSH key value puts the value at the head of the list at key
addToIndex(store, key, value) == [store EXCEPT ![key] = <<value>> \o @]

(***************************************************************************)
(* The trace: every call to a collaborator and every line written.         *)
(***************************************************************************)
Event(kind, what, idx, u, k, ok) ==
    [ev |-> kind, msg |-> what, idx |-> idx, uuid |-> u, key |-> k, ok |-> ok]
Call(op, idx, u, k, ok) == Event("call", op, idx, u, k, ok)
Printf(line, idx, u, k) == Event("print", line, idx, u, k, TRUE)
Fatal(line, idx) == Event("fatal", line, idx, "", "", FALSE)

(***************************************************************************)
(* main of backfill-redis                                                  *)
(***************************************************************************)
\* a variant of FlagError without the check of the end index
FlagError_NoEndCheck ==
    IF redisAddress = "" THEN "address must be set"
    ELSE IF redisPort = "" THEN "port must be set"
    ELSE IF startIndex = UnsetIndex THEN "start must be set to >=0"
    ELSE IF rekorAddress = "" THEN "rekor-address must be set"
    ELSE ""

\* a variant of FlagError that also refuses a start above the end
FlagError_RejectReversed ==
    IF redisAddress = "" THEN "address must be set"
    ELSE IF redisPort = "" THEN "port must be set"
    ELSE IF startIndex = UnsetIndex THEN "start must be set to >=0"
    ELSE IF endIndex = UnsetIndex THEN "end must be set to >=0"
    ELSE IF startIndex > endIndex THEN "start must be <= end"
    ELSE IF rekorAddress = "" THEN "rekor-address must be set"
    ELSE ""

\* the check of the five required flags: the message of the first that is
\* unset, "" when all are set
FlagError ==
    IF redisAddress = "" THEN "address must be set"
    ELSE IF redisPort = "" THEN "port must be set"
    ELSE IF startIndex = UnsetIndex THEN "start must be set to >=0"
    ELSE IF endIndex = UnsetIndex THEN "end must be set to >=0"
    ELSE IF rekorAddress = "" THEN "rekor-address must be set"
    ELSE ""

EnvVars == <<redisAddress, redisPort, startIndex, endIndex, rekorAddress,
             rekorLog, redis0, redisAtExec, run>>

\* flag.Parse and the five checks
CheckFlags ==
    /\ pc = "flags"
    /\ IF FlagError # ""
       THEN /\ pc' = "fatal"
            /\ trace' = Append(trace, Fatal(FlagError, UnsetIndex))
       ELSE /\ pc' = "connect"
            /\ trace' = trace
    /\ UNCHANGED <<i, payload, uuid, keys, success, redis, EnvVars, fvars>>

\* cfg.New: the connection to Redis, which may fail
Connect ==
    /\ pc = "connect"
    /\ \E ok \in BOOLEAN :
        /\ pc' = IF ok THEN "client" ELSE "fatal"
        /\ trace' = IF ok
                    THEN Append(trace, Call("radix.New", UnsetIndex, "", "", TRUE))
                    ELSE trace \o <<Call("radix.New", UnsetIndex, "", "", FALSE),
                                    Fatal("redis", UnsetIndex)>>
    /\ UNCHANGED <<i, payload, uuid, keys, success, redis, EnvVars, fvars>>

\* client.GetRekorClient, which may fail; on success the for loop is entered
NewClient ==
    /\ pc = "client"
    /\ \E ok \in BOOLEAN :
        /\ pc' = IF ok THEN "for" ELSE "fatal"
        /\ i' = IF ok THEN startIndex ELSE i
        /\ trace' = IF ok
                    THEN Append(trace, Call("GetRekorClient", UnsetIndex, "", "", TRUE))
                    ELSE trace \o <<Call("GetRekorClient", UnsetIndex, "", "", FALSE),
                                    Fatal("creating rekor client", UnsetIndex)>>
    /\ UNCHANGED <<payload, uuid, keys, success, redis, EnvVars, fvars>>

\* the loop variable has wrapped around and the index it wrapped to has been
\* retrieved: the model follows a run no further than this
Wrapped ==
    \E p \in 2 .. Len(trace) :
        /\ trace[p].ev = "call" /\ trace[p].msg = "GetLogEntryByIndex"
        /\ trace[p].idx = IntMin
        /\ trace[p - 1].ev = "print" /\ trace[p - 1].idx = IntMax

\* variants of Retrieve: a failed retrieval is fatal or is counted as a
\* failure of the index; success is set to true or left as it is; an empty
\* payload is a success or a failure
RetrieveVariant(fatal, reset, emptyOk) ==
    /\ pc = "for"
    /\ i <= endIndex
    /\ ~Wrapped
    /\ \E ok \in BOOLEAN :
        IF ok
        THEN /\ trace' = Append(trace, Call("GetLogEntryByIndex", i, "", "", TRUE))
             /\ payload' = Payload(i)
             /\ success' = IF ~emptyOk /\ Payload(i) = {} THEN FALSE
                           ELSE IF reset THEN TRUE ELSE success
             /\ pc' = "range"
        ELSE IF fatal
        THEN /\ trace' = trace \o <<Call("GetLogEntryByIndex", i, "", "", FALSE),
                                    Fatal("retrieving log uuid by index", i)>>
             /\ pc' = "fatal"
             /\ UNCHANGED <<payload, success>>
        ELSE /\ trace' = Append(trace, Call("GetLogEntryByIndex", i, "", "", FALSE))
             /\ payload' = {}
             /\ success' = FALSE
             /\ pc' = "range"
    /\ UNCHANGED <<i, uuid, keys, redis, redisAddress, redisPort, startIndex,
                   endIndex, rekorAddress, rekorLog, redis0, redisAtExec, run,
                   flagRanges, flagPrev, flagCall, flagTokens, flagInput, flagErr, flagString>>
Retrieve_TolerateFailure == RetrieveVariant(FALSE, TRUE, TRUE)
Retrieve_KeepSuccess == RetrieveVariant(TRUE, FALSE, TRUE)
Retrieve_EmptyIsFailure == RetrieveVariant(TRUE, TRUE, FALSE)

\* one pass of "for i := *startIndex; i <= *endIndex; i++" up to the range
\* loop: GetLogEntryByIndex(i), fatal on error, and success := true
Retrieve ==
    /\ pc = "for"
    /\ i <= endIndex
    /\ ~Wrapped
    /\ \E ok \in BOOLEAN :
        IF ok
        THEN /\ trace' = Append(trace, Call("GetLogEntryByIndex", i, "", "", TRUE))
             /\ payload' = Payload(i)
             /\ success' = TRUE
             /\ pc' = "range"
        ELSE /\ trace' = trace \o <<Call("GetLogEntryByIndex", i, "", "", FALSE),
                                    Fatal("retrieving log uuid by index", i)>>
             /\ pc' = "fatal"
             /\ UNCHANGED <<payload, success>>
    /\ UNCHANGED <<i, uuid, keys, redis, EnvVars, fvars>>

\* the loop condition fails: main returns
Return ==
    /\ pc = "for"
    /\ i > endIndex
    /\ pc' = "exit"
    /\ UNCHANGED <<i, payload, uuid, keys, success, redis, trace, EnvVars, fvars>>

\* a variant of RangeEntry that leaves the range loop at the first entry
\* that does not decode
RangeEntry_BreakOnDecodeError ==
    /\ pc = "range"
    /\ \E u \in payload :
        LET e == unmarshalEntryImpl(Body(u))
            ks == IndexKeys(e.entry)
        IN  /\ uuid' = u
            /\ IF e.err
               THEN /\ trace' = trace \o <<Call("unmarshalEntryImpl", i, u, "", FALSE),
                                           Printf("error unmarshalling entry", i, u, "")>>
                    /\ success' = FALSE
                    /\ keys' = <<>>
                    /\ payload' = {}
                    /\ pc' = "range"
               ELSE IF ks.err
               THEN /\ trace' = trace \o <<Call("unmarshalEntryImpl", i, u, "", TRUE),
                                           Call("IndexKeys", i, u, "", FALSE),
                                           Printf("error building index keys", i, u, "")>>
                    /\ success' = FALSE
                    /\ keys' = <<>>
                    /\ payload' = payload \ {u}
                    /\ pc' = "range"
               ELSE /\ trace' = trace \o <<Call("unmarshalEntryImpl", i, u, "", TRUE),
                                           Call("IndexKeys", i, u, "", TRUE)>>
                    /\ success' = success
                    /\ keys' = ks.keys
                    /\ payload' = payload \ {u}
                    /\ pc' = IF ks.keys = <<>> THEN "range" ELSE "keys"
    /\ UNCHANGED <<i, redis, redisAddress, redisPort, startIndex, endIndex,
                   rekorAddress, rekorLog, redis0, redisAtExec, run,
                   flagRanges, flagPrev, flagCall, flagTokens, flagInput, flagErr, flagString>>

\* one pass of "for uuid, entry := range resp.Payload" up to the key loop:
\* a Go map is visited in no fixed order, every pair once
RangeEntry ==
    /\ pc = "range"
    /\ \E u \in payload :
        LET e == unmarshalEntryImpl(Body(u))
            ks == IndexKeys(e.entry)
        IN  /\ payload' = payload \ {u}
            /\ uuid' = u
            /\ IF e.err
               THEN /\ trace' = trace \o <<Call("unmarshalEntryImpl", i, u, "", FALSE),
                                           Printf("error unmarshalling entry", i, u, "")>>
                    /\ success' = FALSE
                    /\ keys' = <<>>
                    /\ pc' = "range"
               ELSE IF ks.err
               THEN /\ trace' = trace \o <<Call("unmarshalEntryImpl", i, u, "", TRUE),
                                           Call("IndexKeys", i, u, "", FALSE),
                                           Printf("error building index keys", i, u, "")>>
                    /\ success' = FALSE
                    /\ keys' = <<>>
                    /\ pc' = "range"
               ELSE /\ trace' = trace \o <<Call("unmarshalEntryImpl", i, u, "", TRUE),
                                           Call("IndexKeys", i, u, "", TRUE)>>
                    /\ success' = success
                    /\ keys' = ks.keys
                    /\ pc' = IF ks.keys = <<>> THEN "range" ELSE "keys"
    /\ UNCHANGED <<i, redis, EnvVars, fvars>>

\* a variant of WriteKey that leaves the key loop at the first write that
\* fails
WriteKey_BreakOnError ==
    /\ pc = "keys"
    /\ \E ok \in BOOLEAN :
        LET key == Head(keys)
        IN  /\ redis' = IF ok THEN addToIndex(redis, key, uuid) ELSE redis
            /\ success' = IF ok THEN success ELSE FALSE
            /\ trace' = IF ok
                        THEN trace \o <<Call("LPUSH", i, uuid, key, TRUE),
                                        Printf("Uploaded Redis entry", i, uuid, key)>>
                        ELSE trace \o <<Call("LPUSH", i, uuid, key, FALSE),
                                        Printf("error inserting UUID", i, uuid, key),
                                        Printf("Uploaded Redis entry", i, uuid, key)>>
            /\ keys' = IF ok THEN Tail(keys) ELSE <<>>
            /\ pc' = IF ok /\ Tail(keys) # <<>> THEN "keys" ELSE "range"
    /\ UNCHANGED <<i, payload, uuid, redisAddress, redisPort, startIndex,
                   endIndex, rekorAddress, rekorLog, redis0, redisAtExec, run,
                   flagRanges, flagPrev, flagCall, flagTokens, flagInput, flagErr, flagString>>

\* one pass of "for _, key := range keys": addToIndex, which may fail, the
\* error line when it does, and the "Uploaded" line
WriteKey ==
    /\ pc = "keys"
    /\ \E ok \in BOOLEAN :
        LET key == Head(keys)
        IN  /\ redis' = IF ok THEN addToIndex(redis, key, uuid) ELSE redis
            /\ success' = IF ok THEN success ELSE FALSE
            /\ trace' = IF ok
                        THEN trace \o <<Call("LPUSH", i, uuid, key, TRUE),
                                        Printf("Uploaded Redis entry", i, uuid, key)>>
                        ELSE trace \o <<Call("LPUSH", i, uuid, key, FALSE),
                                        Printf("error inserting UUID", i, uuid, key),
                                        Printf("Uploaded Redis entry", i, uuid, key)>>
            /\ keys' = Tail(keys)
            /\ pc' = IF Tail(keys) = <<>> THEN "range" ELSE "keys"
    /\ UNCHANGED <<i, payload, uuid, EnvVars, fvars>>

\* the range loop has visited every pair: the line for index i, then i++
Report ==
    /\ pc = "range"
    /\ payload = {}
    /\ trace' = Append(trace, IF success
                              THEN Printf("Completed log index", i, "", "")
                              ELSE Printf("Errors with log index", i, "", ""))
    /\ i' = Inc(i)
    /\ pc' = "for"
    /\ UNCHANGED <<payload, uuid, keys, success, redis, EnvVars, fvars>>

\* the operator starts the same command line once more against the same
\* Rekor server and the same Redis
Rerun ==
    /\ pc = "exit"
    /\ run = 1
    /\ run' = 2
    /\ redisAtExec' = redis
    /\ pc' = "flags"
    /\ i' = 0
    /\ payload' = {}
    /\ uuid' = ""
    /\ keys' = <<>>
    /\ success' = TRUE
    /\ trace' = Append(trace, Event("exec", "backfill-redis", UnsetIndex, "", "", TRUE))
    /\ UNCHANGED <<redisAddress, redisPort, startIndex, endIndex, rekorAddress,
                   rekorLog, redis, redis0, fvars>>

\* the flag is not in use while the backfill runs
FlagIdle ==
    /\ flagRanges = <<>>
    /\ flagPrev = <<>>
    /\ flagCall = "none"
    /\ flagTokens = <<>>
    /\ flagInput = <<>>
    /\ flagErr = [kind |-> "nil", treeID |-> <<>>, arg |-> <<>>]
    /\ flagString = <<>>

\* the process has been started with some command line
Init ==
    /\ redisAddress \in AddressVals
    /\ redisPort \in PortVals
    /\ startIndex \in IndexVals
    /\ endIndex \in IndexVals
    /\ rekorAddress \in RekorVals
    /\ rekorLog \in Logs
    /\ redis0 \in InitialStores
    /\ redis = redis0
    /\ redisAtExec = redis0
    /\ run = 1
    /\ pc = "flags"
    /\ i = 0
    /\ payload = {}
    /\ uuid = ""
    /\ keys = <<>>
    /\ success = TRUE
    /\ trace = <<>>
    /\ FlagIdle

Next ==
    \/ CheckFlags
    \/ Connect
    \/ NewClient
    \/ Retrieve
    \/ Return
    \/ RangeEntry
    \/ WriteKey
    \/ Report

Spec == Init /\ [][Next]_vars

NextRerun == Next \/ Rerun

SpecRerun == Init /\ [][NextRerun]_vars

(***************************************************************************)
(* rekor-server: LogRangesFlag.  A string is a sequence of characters; a   *)
(* uint64 is five limbs of four decimal digits, most significant first,   *)
(* at most MaxUint64.                                                      *)
(***************************************************************************)
\* the largest number of comma-separated tokens of an argument of Set
MaxTokens == 4

Digits == <<"0", "1", "2", "3", "4", "5", "6", "7", "8", "9">>
IsDigit(c) == \E d \in 1 .. 10 : Digits[d] = c
DigitVal(c) == (CHOOSE d \in 1 .. 10 : Digits[d] = c) - 1

\* 0, 2^64 - 1 and (2^64 - 1) / 10 + 1 as limbs
Zero == <<0, 0, 0, 0, 0>>
MaxUint64 == <<1844, 6744, 737, 955, 1615>>
Cutoff == <<184, 4674, 4073, 7095, 5162>>

\* a < b on limbs
Less(a, b) ==
    \E k \in 1 .. 5 : a[k] < b[k] /\ \A j \in 1 .. (k - 1) : a[j] = b[j]

\* n * 10 + d on limbs
MulAdd(n, d) ==
    LET x5 == n[5] * 10 + d
        x4 == n[4] * 10 + (x5 \div 10000)
        x3 == n[3] * 10 + (x4 \div 10000)
        x2 == n[2] * 10 + (x3 \div 10000)
        x1 == n[1] * 10 + (x2 \div 10000)
    IN  <<x1, x2 % 10000, x3 % 10000, x4 % 10000, x5 % 10000>>

\* the loop of strconv.ParseUint(str, 10, 64) over the characters of str
RECURSIVE ParseDigits(_, _)
ParseDigits(str, n) ==
    IF str = <<>> THEN [err |-> "nil", val |-> n]
    ELSE IF ~IsDigit(Head(str)) THEN [err |-> "invalid syntax", val |-> Zero]
    ELSE IF ~Less(n, Cutoff) THEN [err |-> "value out of range", val |-> MaxUint64]
    ELSE LET n1 == MulAdd(n, DigitVal(Head(str)))
         IN  IF Less(MaxUint64, n1)
             THEN [err |-> "value out of range", val |-> MaxUint64]
             ELSE ParseDigits(Tail(str), n1)

\* strconv.ParseUint(str, 10, 64): no sign, no prefix, no underscore
ParseUint(str) ==
    IF str = <<>> THEN [err |-> "invalid syntax", val |-> Zero]
    ELSE ParseDigits(str, Zero)

\* the four decimal digits of a limb
LimbDigits(x) ==
    <<Digits[(x \div 1000) + 1], Digits[((x \div 100) % 10) + 1],
      Digits[((x \div 10) % 10) + 1], Digits[(x % 10) + 1]>>

RECURSIVE StripZeros(_)
StripZeros(str) ==
    IF Len(str) > 1 /\ Head(str) = "0" THEN StripZeros(Tail(str)) ELSE str

\* a variant of FormatUint that writes all twenty digits
FormatUint_Padded(v) ==
    LimbDigits(v[1]) \o LimbDigits(v[2]) \o LimbDigits(v[3])
        \o LimbDigits(v[4]) \o LimbDigits(v[5])

\* the verb %d of fmt.Sprintf on a uint64
FormatUint(v) ==
    StripZeros(LimbDigits(v[1]) \o LimbDigits(v[2]) \o LimbDigits(v[3])
               \o LimbDigits(v[4]) \o LimbDigits(v[5]))

\* the first position of the character c in str, 0 when there is none
IndexOf(str, c) ==
    LET hits == {k \in 1 .. Len(str) : str[k] = c}
    IN  IF hits = {} THEN 0 ELSE CHOOSE k \in hits : \A j \in hits : k <= j

\* strings.Split(str, ","): "" gives one empty string
RECURSIVE Split(_)
Split(str) ==
    LET k == IndexOf(str, ",")
    IN  IF k = 0 THEN <<str>>
        ELSE <<SubSeq(str, 1, k - 1)>> \o Split(SubSeq(str, k + 1, Len(str)))

\* strings.SplitN(r, "=", 2): cut at the first "=", if any
SplitN(r) ==
    LET k == IndexOf(r, "=")
    IN  IF k = 0 THEN <<r>>
        ELSE <<SubSeq(r, 1, k - 1), SubSeq(r, k + 1, Len(r))>>

\* strings.Join(strs, ",")
RECURSIVE Join(_)
Join(strs) ==
    IF strs = <<>> THEN <<>>
    ELSE IF Len(strs) = 1 THEN strs[1]
    ELSE strs[1] \o <<",">> \o Join(Tail(strs))

NoError == [kind |-> "nil", treeID |-> <<>>, arg |-> <<>>]
Errorf(kind, str) == [kind |-> kind, treeID |-> <<>>, arg |-> str]

\* a variant of ParseHistorical that stores the two halves the other way round
RECURSIVE ParseHistorical_Swapped(_, _)
ParseHistorical_Swapped(toks, inputRanges) ==
    IF toks = <<>> THEN [err |-> NoError, ranges |-> inputRanges]
    ELSE LET r == Head(toks)
             split == SplitN(r)
         IN  IF Len(split) # 2
             THEN [err |-> Errorf("invalid range flag", r), ranges |-> <<>>]
             ELSE LET id == ParseUint(split[1])
                      len == ParseUint(split[2])
                  IN  IF id.err # "nil"
                      THEN [err |-> Errorf(id.err, split[1]), ranges |-> <<>>]
                      ELSE IF len.err # "nil"
                      THEN [err |-> Errorf(len.err, split[2]), ranges |-> <<>>]
                      ELSE ParseHistorical_Swapped(Tail(toks),
                              Append(inputRanges,
                                     [TreeID |-> len.val, TreeLength |-> id.val]))

\* a variant of ParseHistorical that takes a token without "=" as a shard
\* of length 0
RECURSIVE ParseHistorical_BareAllowed(_, _)
ParseHistorical_BareAllowed(toks, inputRanges) ==
    IF toks = <<>> THEN [err |-> NoError, ranges |-> inputRanges]
    ELSE LET r == Head(toks)
             split == IF Len(SplitN(r)) = 2 THEN SplitN(r) ELSE <<r, <<"0">> >>
             id == ParseUint(split[1])
             len == ParseUint(split[2])
         IN  IF id.err # "nil"
             THEN [err |-> Errorf(id.err, split[1]), ranges |-> <<>>]
             ELSE IF len.err # "nil"
             THEN [err |-> Errorf(len.err, split[2]), ranges |-> <<>>]
             ELSE ParseHistorical_BareAllowed(Tail(toks),
                     Append(inputRanges,
                            [TreeID |-> id.val, TreeLength |-> len.val]))

\* the loop of Set over ranges[:len(ranges)-1]: every token is cut at its
\* first "=" and both halves are parsed; the first failure is returned
RECURSIVE ParseHistorical(_, _)
ParseHistorical(toks, inputRanges) ==
    IF toks = <<>> THEN [err |-> NoError, ranges |-> inputRanges]
    ELSE LET r == Head(toks)
             split == SplitN(r)
         IN  IF Len(split) # 2
             THEN [err |-> Errorf("invalid range flag", r), ranges |-> <<>>]
             ELSE LET id == ParseUint(split[1])
                      len == ParseUint(split[2])
                  IN  IF id.err # "nil"
                      THEN [err |-> Errorf(id.err, split[1]), ranges |-> <<>>]
                      ELSE IF len.err # "nil"
                      THEN [err |-> Errorf(len.err, split[2]), ranges |-> <<>>]
                      ELSE ParseHistorical(Tail(toks),
                              Append(inputRanges,
                                     [TreeID |-> id.val, TreeLength |-> len.val]))

\* a variant of FindDuplicate that reports the last shard whose TreeID an
\* earlier shard carries
FindDuplicate_Last(inputRanges) ==
    LET dups == {j \in 1 .. Len(inputRanges) :
                    \E k \in 1 .. (j - 1) :
                        inputRanges[k].TreeID = inputRanges[j].TreeID}
    IN  IF dups = {} THEN 0 ELSE CHOOSE j \in dups : \A k \in dups : j >= k

\* a variant of FindDuplicate that compares a shard with the one before it
\* only
FindDuplicate_AdjacentOnly(inputRanges) ==
    LET dups == {j \in 2 .. Len(inputRanges) :
                    inputRanges[j - 1].TreeID = inputRanges[j].TreeID}
    IN  IF dups = {} THEN 0 ELSE CHOOSE j \in dups : \A k \in dups : j <= k

\* the loop of Set over inputRanges with the map TreeIDs: the position of
\* the first shard whose TreeID an earlier shard carries, 0 when there is none
FindDuplicate(inputRanges) ==
    LET dups == {j \in 1 .. Len(inputRanges) :
                    \E k \in 1 .. (j - 1) :
                        inputRanges[k].TreeID = inputRanges[j].TreeID}
    IN  IF dups = {} THEN 0 ELSE CHOOSE j \in dups : \A k \in dups : j <= k

\* LogRangesFlag.Set: the ranges l holds after the call and the error
\* returned.  l.Ranges is emptied first, and filled only at the end.
Set(l, str) ==
    LET ranges == Split(str)
        hist == ParseHistorical(SubSeq(ranges, 1, Len(ranges) - 1), <<>>)
        lastTreeID == ParseUint(ranges[Len(ranges)])
        inputRanges == Append(hist.ranges,
                              [TreeID |-> lastTreeID.val, TreeLength |-> Zero])
        dup == FindDuplicate(inputRanges)
    IN  IF hist.err.kind # "nil" THEN [Ranges |-> <<>>, err |-> hist.err]
        ELSE IF lastTreeID.err # "nil"
        THEN [Ranges |-> <<>>,
              err |-> Errorf(lastTreeID.err, ranges[Len(ranges)])]
        ELSE IF dup # 0
        THEN [Ranges |-> <<>>,
              err |-> [kind |-> "duplicate tree id",
                       treeID |-> inputRanges[dup].TreeID, arg |-> <<>>]]
        ELSE [Ranges |-> inputRanges, err |-> NoError]

\* a variant of String that writes the last range as its TreeID alone
String_BareActive(l) ==
    Join([n \in 1 .. Len(l) |->
            IF n = Len(l) THEN FormatUint(l[n].TreeID)
            ELSE FormatUint(l[n].TreeID) \o <<"=">> \o FormatUint(l[n].TreeLength)])

\* LogRangesFlag.String: every range as "%d=%d", joined with ","
String(l) ==
    Join([n \in 1 .. Len(l) |->
            FormatUint(l[n].TreeID) \o <<"=">> \o FormatUint(l[n].TreeLength)])

(***************************************************************************)
(* The arguments Set is called with: up to MaxTokens comma-free tokens,    *)
(* joined with ",".  Every string is such a join.                          *)
(***************************************************************************)
\* "1"
Tok_1 ==
    <<"1">>
\* "1=100"
Tok_1_100 ==
    <<"1", "=", "1", "0", "0">>
\* "2=50"
Tok_2_50 ==
    <<"2", "=", "5", "0">>
\* "02=5"
Tok_02_5 ==
    <<"0", "2", "=", "5">>
\* "abc=100"
Tok_abc_100 ==
    <<"a", "b", "c", "=", "1", "0", "0">>
\* ""
Tok_empty ==
    <<>>
\* "18446744073709551615=18446744073709551615"
Tok_max_max ==
    <<"1", "8", "4", "4", "6", "7", "4", "4", "0", "7", "3", "7", "0", "9", "5", "5", "1", "6", "1", "5", "=", "1", "8", "4", "4", "6", "7", "4", "4", "0", "7", "3", "7", "0", "9", "5", "5", "1", "6", "1", "5">>
\* "3=18446744073709551616"
Tok_3_over ==
    <<"3", "=", "1", "8", "4", "4", "6", "7", "4", "4", "0", "7", "3", "7", "0", "9", "5", "5", "1", "6", "1", "6">>

Tokens ==
    {Tok_1, Tok_1_100, Tok_2_50, Tok_02_5,
     Tok_abc_100, Tok_empty, Tok_max_max, Tok_3_over}

RECURSIVE SeqsUpTo(_, _)
SeqsUpTo(S, n) ==
    IF n = 0 THEN {<<>>}
    ELSE LET shorter == SeqsUpTo(S, n - 1)
         IN  shorter \cup {Append(q, x) : q \in shorter, x \in S}

TokenSeqs == SeqsUpTo(Tokens, MaxTokens) \ {<<>>}

\* what a flag can hold before Set is called on it: nothing, or the ranges
\* of an earlier successful Set
PriorRanges ==
    {<<>>, Set(<<>>, Join(<<Tok_2_50, Tok_1>>)).Ranges}

(***************************************************************************)
(* The calls on a LogRangesFlag                                            *)
(***************************************************************************)
\* the backfill is not running
BackfillIdle ==
    /\ redisAddress = ""
    /\ redisPort = ""
    /\ startIndex = UnsetIndex
    /\ endIndex = UnsetIndex
    /\ rekorAddress = ""
    /\ rekorLog = [x \in 0 .. MaxIndex |-> {}]
    /\ redis = EmptyRedis
    /\ redis0 = EmptyRedis
    /\ redisAtExec = EmptyRedis
    /\ run = 0
    /\ pc = "idle"
    /\ i = 0
    /\ payload = {}
    /\ uuid = ""
    /\ keys = <<>>
    /\ success = TRUE
    /\ trace = <<>>

InitFlag ==
    /\ flagRanges \in PriorRanges
    /\ flagPrev = flagRanges
    /\ flagCall = "none"
    /\ flagTokens = <<>>
    /\ flagInput = <<>>
    /\ flagErr = NoError
    /\ flagString = <<>>
    /\ BackfillIdle

\* l.Set(s) on a command-line argument
FlagSet ==
    /\ flagCall = "none"
    /\ \E toks \in TokenSeqs :
        LET res == Set(flagRanges, Join(toks))
        IN  /\ flagTokens' = toks
            /\ flagInput' = Join(toks)
            /\ flagPrev' = flagRanges
            /\ flagRanges' = res.Ranges
            /\ flagErr' = res.err
    /\ flagCall' = "Set"
    /\ UNCHANGED <<flagString, bvars>>

\* l.String()
FlagString ==
    /\ flagCall = "Set"
    /\ flagString' = String(flagRanges)
    /\ flagCall' = "String"
    /\ UNCHANGED <<flagRanges, flagPrev, flagTokens, flagInput, flagErr, bvars>>

\* l.Set(l.String()): the rendered value is given back to the flag
FlagSetString ==
    /\ flagCall = "String"
    /\ LET res == Set(flagRanges, flagString)
       IN  /\ flagPrev' = flagRanges
           /\ flagRanges' = res.Ranges
           /\ flagErr' = res.err
    /\ flagInput' = flagString
    /\ flagCall' = "SetString"
    /\ UNCHANGED <<flagTokens, flagString, bvars>>

NextFlag ==
    \/ FlagSet
    \/ FlagString
    \/ FlagSetString

SpecFlag == InitFlag /\ [][NextFlag]_vars

(***************************************************************************)
(* Reading the trace                                                       *)
(***************************************************************************)
Pos == 1 .. Len(trace)
IsCall(e, op) == e.ev = "call" /\ e.msg = op
IsGet(e) == IsCall(e, "GetLogEntryByIndex")
IsDecode(e) == IsCall(e, "unmarshalEntryImpl")
IsKeys(e) == IsCall(e, "IndexKeys")
IsPush(e) == IsCall(e, "LPUSH")
IsOutcome(e) ==
    e.ev = "print" /\ e.msg \in {"Completed log index", "Errors with log index"}
\* an event of the work on one logical index
PerIndex(e) ==
    \/ IsGet(e) \/ IsDecode(e) \/ IsKeys(e) \/ IsPush(e) \/ IsOutcome(e)
    \/ e.ev = "print" /\ e.msg \in {"error unmarshalling entry",
                                    "error building index keys",
                                    "error inserting UUID", "Uploaded Redis entry"}
\* how often v occurs in the sequence s
Count(s, v) == Cardinality({p \in 1 .. Len(s) : s[p] = v})
\* the positions before q of the calls of op for the entry u of index ix
Before(q, ix, u, op) ==
    {p \in 1 .. (q - 1) :
        IsCall(trace[p], op) /\ trace[p].idx = ix /\ trace[p].uuid = u}
\* the keys the entry v yields when it decodes and its keys can be built
KeysOf(v) ==
    LET e == unmarshalEntryImpl(Body(v))
    IN  IF e.err \/ IndexKeys(e.entry).err THEN <<>> ELSE IndexKeys(e.entry).keys
\* before position q, every pair of index ix has been decoded once and every
\* key of every entry that yields keys has been written once, in order
IndexComplete(ix, q) ==
    \A v \in Payload(ix) :
        /\ Cardinality(Before(q, ix, v, "unmarshalEntryImpl")) = 1
        /\ Cardinality(Before(q, ix, v, "LPUSH")) = Len(KeysOf(v))
        /\ \A n \in 1 .. Len(KeysOf(v)) :
              \E p \in Before(q, ix, v, "LPUSH") :
                 /\ trace[p].key = KeysOf(v)[n]
                 /\ Cardinality({r \in Before(q, ix, v, "LPUSH") : r < p}) = n - 1
\* the lists of store after the successful writes of tr
RECURSIVE Replay(_, _)
Replay(store, tr) ==
    IF tr = <<>> THEN store
    ELSE Replay(IF IsPush(Head(tr)) /\ Head(tr).ok
                THEN [store EXCEPT ![Head(tr).key] = <<Head(tr).uuid>> \o @]
                ELSE store,
                Tail(tr))
\* after the event at q, the run goes on with the index after ix
GoesOnAfter(q, ix) ==
    IF q < Len(trace)
    THEN IsGet(trace[q + 1]) /\ trace[q + 1].idx = Inc(ix)
    ELSE i = Inc(ix) /\ pc \in {"for", "exit"}
\* the retrieval that opened the pass of the for loop the event at q is in
GetOf(q) == CHOOSE p \in 1 .. q : IsGet(trace[p]) /\ \A r \in (p + 1) .. q : ~IsGet(trace[r])
\* a decode, key extraction or write at one of the positions a..b failed
FailureIn(a, b) ==
    \E p \in a .. b : /\ IsDecode(trace[p]) \/ IsKeys(trace[p]) \/ IsPush(trace[p])
                      /\ ~trace[p].ok

(***************************************************************************)
(* The claims on the backfill                                              *)
(***************************************************************************)

\* C1: a failed retrieval at index ix aborts the run: it is followed by the
\* fatal report and nothing else, so no retrieval, decode, write or outcome
\* comes after it; the indices retrieved before it each have their one
\* outcome, and their writes are what is left in Redis.
C1_RetrievalFailureAborts ==
    \A p \in Pos :
        (IsGet(trace[p]) /\ ~trace[p].ok) =>
            LET ix == trace[p].idx
            IN  /\ pc = "fatal"
                /\ Len(trace) = p + 1
                /\ trace[p + 1] = Fatal("retrieving log uuid by index", ix)
                /\ \A q \in 1 .. (p - 1) :
                      /\ trace[q].ev # "fatal"
                      /\ IsGet(trace[q]) =>
                            Cardinality({r \in q .. p : IsOutcome(trace[r])
                                                        /\ GetOf(r) = q}) = 1
                /\ redis = Replay(redis0, trace)

\* C1 witness: a retrieval failed after an earlier index was written
C1_Witness ==
    \E p \in Pos :
        /\ IsGet(trace[p]) /\ ~trace[p].ok
        /\ trace[p].idx > startIndex
        /\ redis # redis0
        /\ \E q \in Pos : IsOutcome(trace[q])

\* C2: a decode failure at index ix is reported and nothing more: nothing is
\* written for that entry, the index is worked to its end (every other pair
\* decoded, every key of theirs written), its outcome is "Errors", and the
\* run goes on with ix + 1.
C2_DecodeFailureTolerated ==
    \A p \in Pos :
        (IsDecode(trace[p]) /\ ~trace[p].ok) =>
            LET ix == trace[p].idx
                u == trace[p].uuid
            IN  /\ p < Len(trace)
                /\ trace[p + 1] = Printf("error unmarshalling entry", ix, u, "")
                /\ ~\E q \in Pos : /\ IsPush(trace[q]) \/ IsKeys(trace[q])
                                   /\ trace[q].uuid = u
                /\ IF \E q \in Pos : IsOutcome(trace[q]) /\ trace[q].idx = ix
                   THEN \A q \in Pos :
                           (IsOutcome(trace[q]) /\ trace[q].idx = ix) =>
                              /\ q > p
                              /\ trace[q].msg = "Errors with log index"
                              /\ IndexComplete(ix, q)
                              /\ GoesOnAfter(q, ix)
                   ELSE /\ pc \in {"range", "keys"}
                        /\ i = ix
                        /\ ~success
                        /\ \A v \in Payload(ix) :
                              \/ v \in payload
                              \/ Before(Len(trace) + 1, ix, v, "unmarshalEntryImpl") # {}

\* C2 witness: at one index an entry failed to decode, another was written,
\* and the next index was retrieved
C2_Witness ==
    \E p, q, r \in Pos :
        /\ IsDecode(trace[p]) /\ ~trace[p].ok
        /\ IsPush(trace[q]) /\ trace[q].ok /\ trace[q].idx = trace[p].idx /\ p < q
        /\ IsGet(trace[r]) /\ trace[r].idx = trace[p].idx + 1

\* C3: a pass of the for loop is finished exactly when it has its one
\* outcome line, and that line is "Completed" exactly when no decode, key
\* extraction or write of that pass failed, whatever happened in other
\* passes.
C3_OutcomeIffNoFailure ==
    /\ \A q \in Pos :
          IsOutcome(trace[q]) =>
             /\ \E p \in 1 .. q : IsGet(trace[p])
             /\ trace[GetOf(q)].ok /\ trace[GetOf(q)].idx = trace[q].idx
             /\ (trace[q].msg = "Completed log index") <=> ~FailureIn(GetOf(q), q)
             /\ \A r \in GetOf(q) .. Len(trace) :
                   (IsOutcome(trace[r]) /\ GetOf(r) = GetOf(q)) => r = q
             /\ q = Len(trace) => i = Inc(trace[q].idx) /\ pc \in {"for", "exit"}
    /\ \A p \in Pos :
          (IsGet(trace[p]) /\ trace[p].ok) =>
             \/ \E q \in Pos : q > p /\ IsOutcome(trace[q]) /\ GetOf(q) = p
             \/ /\ pc \in {"range", "keys"} /\ i = trace[p].idx
                /\ \A r \in (p + 1) .. Len(trace) : ~IsGet(trace[r])

\* C3 witness: an index with failures is followed by an index without
C3_Witness ==
    \E p, q, r \in Pos :
        /\ trace[p].msg = "Errors with log index"
        /\ trace[q].msg = "Completed log index" /\ trace[q].idx = trace[p].idx + 1
        /\ IsPush(trace[r]) /\ trace[r].ok /\ trace[r].idx = trace[q].idx

\* C4: the retrievals are issued for start, start+1, ... in this order, none
\* above end; each but the first directly follows the outcome of the index
\* before it, which follows every decode and every write of that index; all
\* the work on an index lies between its retrieval and the next one; a run
\* that returns has retrieved every index of [start, end] once.
\* The code breaks this when end is the largest int: i++ wraps around, the
\* loop condition still holds, and the retrieval after the one for end is
\* for the smallest int.
C4_SequentialAscending ==
    /\ \A p \in Pos :
          IsGet(trace[p]) =>
             LET ix == trace[p].idx
             IN  /\ ix <= endIndex
                 /\ IF \E r \in 1 .. (p - 1) : IsGet(trace[r])
                    THEN /\ IsOutcome(trace[p - 1])
                         /\ trace[p - 1].idx = ix - 1
                         /\ IndexComplete(ix - 1, p - 1)
                    ELSE ix = startIndex
                 /\ \A q \in Pos :
                       (PerIndex(trace[q]) /\ trace[q].idx = ix /\ q # p) =>
                          /\ q > p
                          /\ \A r \in Pos : (IsGet(trace[r]) /\ r > p) => q < r
    /\ pc = "exit" =>
          \A j \in startIndex .. endIndex :
             Cardinality({p \in Pos : IsGet(trace[p]) /\ trace[p].idx = j}) = 1

\* C5: when the same range is run twice with no failed retrieval and no
\* failed write, every (key, entryID) record the first run added is in
\* Redis twice as often after the second run.
C5_NotIdempotent ==
    (/\ run = 2
     /\ pc = "exit"
     /\ \A p \in Pos : (IsGet(trace[p]) \/ IsPush(trace[p])) => trace[p].ok) =>
        \A k \in Keys :
            /\ Len(redis[k]) - Len(redis0[k])
                  = 2 * (Len(redisAtExec[k]) - Len(redis0[k]))
            /\ \A u \in UUIDs :
                  Count(redis[k], u) - Count(redis0[k], u)
                     = 2 * (Count(redisAtExec[k], u) - Count(redis0[k], u))

\* C5 witness: the second run has ended, both runs without a failed call,
\* and the first run had added records
C5_Witness ==
    /\ run = 2
    /\ pc = "exit"
    /\ \A p \in Pos : (IsGet(trace[p]) \/ IsPush(trace[p])) => trace[p].ok
    /\ Len(redisAtExec["k1"]) > Len(redis0["k1"])
    /\ Len(redis["k1"]) > Len(redisAtExec["k1"])

\* C6: a retrieval that succeeds with no pair is followed by "Completed" for
\* that index and then by the next index, with no decode and no write.
C6_EmptyPayloadSucceeds ==
    \A p \in Pos :
        (IsGet(trace[p]) /\ trace[p].ok /\ Payload(trace[p].idx) = {}) =>
            LET ix == trace[p].idx
            IN  /\ ~\E q \in Pos : /\ trace[q].idx = ix
                                   /\ IsDecode(trace[q]) \/ IsKeys(trace[q])
                                                         \/ IsPush(trace[q])
                /\ IF p < Len(trace)
                   THEN /\ trace[p + 1] = Printf("Completed log index", ix, "", "")
                        /\ GoesOnAfter(p + 1, ix)
                   ELSE pc = "range" /\ i = ix /\ payload = {} /\ success

\* C6 witness: an index of the log with no pair was completed after an
\* index with failures, and the next index was retrieved
C6_Witness ==
    \E p, q \in Pos :
        /\ IsGet(trace[p]) /\ trace[p].ok
        /\ trace[p].idx \in DOMAIN rekorLog /\ rekorLog[trace[p].idx] = {}
        /\ p + 2 <= Len(trace) /\ IsGet(trace[p + 2])
        /\ q < p /\ trace[q].msg = "Errors with log index"

\* one of the five required settings is unset
Unset ==
    \/ redisAddress = ""
    \/ redisPort = ""
    \/ startIndex = UnsetIndex
    \/ endIndex = UnsetIndex
    \/ rekorAddress = ""

\* C7: with a required setting unset the process ends in the flag check:
\* no connection, no retrieval and no write is ever made.
C7_UnsetSettingAborts ==
    Unset =>
        /\ pc \in {"flags", "fatal"}
        /\ \A p \in Pos : trace[p].ev = "fatal"
        /\ Len(trace) <= 1
        /\ pc = "fatal" => Len(trace) = 1
        /\ redis = redis0

\* C7 witness: the process has ended on an unset end index, all else set
C7_Witness ==
    /\ pc = "fatal"
    /\ endIndex = UnsetIndex
    /\ redisAddress # "" /\ redisPort # "" /\ rekorAddress # ""
    /\ startIndex # UnsetIndex /\ startIndex <= MaxIndex /\ startIndex >= 0

(***************************************************************************)
(* The claims on LogRangesFlag.  What a token says is read here from its   *)
(* characters, position by position, not by the parser.                    *)
(***************************************************************************)
AllDigits(str) == str # <<>> /\ \A k \in 1 .. Len(str) : IsDigit(str[k])
\* str without its leading zeros, for a str of digits
Canon(str) ==
    IF \A k \in 1 .. Len(str) : str[k] = "0" THEN <<"0">>
    ELSE LET f == CHOOSE k \in 1 .. Len(str) :
                     str[k] # "0" /\ \A j \in 1 .. (k - 1) : str[j] = "0"
         IN  SubSeq(str, f, Len(str))
\* 2^64 - 1 in decimal
MaxDecimal ==
    <<"1", "8", "4", "4", "6", "7", "4", "4", "0", "7",
      "3", "7", "0", "9", "5", "5", "1", "6", "1", "5">>
\* a <= b for two strings of digits of the same length
DigitsLeq(a, b) ==
    \/ a = b
    \/ \E k \in 1 .. Len(a) :
          /\ DigitVal(a[k]) < DigitVal(b[k])
          /\ \A j \in 1 .. (k - 1) : a[j] = b[j]
\* str is a decimal unsigned 64-bit integer
DecimalU64(str) ==
    /\ AllDigits(str)
    /\ \/ Len(Canon(str)) < 20
       \/ Len(Canon(str)) = 20 /\ DigitsLeq(Canon(str), MaxDecimal)
\* the number a decimal unsigned 64-bit integer denotes, as limbs: its
\* digits, filled to twenty with zeros, four to a limb
ValueOf(str) ==
    LET c == Canon(str)
        d(n) == IF n <= 20 - Len(c) THEN 0 ELSE DigitVal(c[n - (20 - Len(c))])
    IN  [m \in 1 .. 5 |->
            d(4 * m - 3) * 1000 + d(4 * m - 2) * 100 + d(4 * m - 1) * 10 + d(4 * m)]
\* the positions at which t reads treeID=length
EqCuts(t) ==
    {k \in 1 .. Len(t) : /\ t[k] = "="
                         /\ DecimalU64(SubSeq(t, 1, k - 1))
                         /\ DecimalU64(SubSeq(t, k + 1, Len(t)))}
HistToken(t) == EqCuts(t) # {}
HistID(t) == ValueOf(SubSeq(t, 1, (CHOOSE k \in EqCuts(t) : TRUE) - 1))
HistLength(t) == ValueOf(SubSeq(t, (CHOOSE k \in EqCuts(t) : TRUE) + 1, Len(t)))
\* every token but the last is treeID=length and the last is a bare treeID
WellFormed(toks) ==
    /\ \A j \in 1 .. (Len(toks) - 1) : HistToken(toks[j])
    /\ DecimalU64(toks[Len(toks)])
\* the shard the token at position j of a well-formed argument stands for
ShardOf(toks, j) ==
    IF j < Len(toks)
    THEN [TreeID |-> HistID(toks[j]), TreeLength |-> HistLength(toks[j])]
    ELSE [TreeID |-> ValueOf(toks[j]), TreeLength |-> Zero]
\* the positions of the shards whose treeID an earlier shard carries
Collisions(toks) ==
    {j \in 1 .. Len(toks) :
        \E k \in 1 .. (j - 1) : ShardOf(toks, k).TreeID = ShardOf(toks, j).TreeID}
\* the errors Set returns for a malformed argument
IsFormatError(err) ==
    err.kind \in {"invalid range flag", "invalid syntax", "value out of range"}
\* a token that reads as a shard in one of the two forms, and its treeID
ReadsAsShard(t) == HistToken(t) \/ DecimalU64(t)
AnyID(t) == IF HistToken(t) THEN HistID(t) ELSE ValueOf(t)

\* C8: an argument whose tokens are treeID=length but for a bare last treeID,
\* all decimal unsigned 64-bit integers and all treeIDs distinct, is parsed
\* without error into one shard per token, in the order of the tokens: the
\* treeID and length of every token but the last, and the last treeID with
\* TreeLength 0.
C8_ParseWellFormed ==
    (/\ flagCall = "Set"
     /\ WellFormed(flagTokens)
     /\ Collisions(flagTokens) = {}) =>
        /\ flagErr = NoError
        /\ Len(flagRanges) = Len(flagTokens)
        /\ \A j \in 1 .. Len(flagTokens) : flagRanges[j] = ShardOf(flagTokens, j)

\* C8 witness: three shards parsed, one written with a leading zero and one
\* with treeID and length 2^64 - 1
C8_Witness ==
    /\ flagCall = "Set"
    /\ flagTokens = <<Tok_max_max, Tok_02_5, Tok_1>>
    /\ Len(flagRanges) = 3
    /\ flagRanges[1].TreeLength = MaxUint64

\* C9: a well-formed argument in which two shards carry the same treeID
\* fails with the duplicate error naming the treeID of the first shard, in
\* order, whose treeID an earlier shard carries; an argument with a malformed
\* token fails with a format error also when two of its tokens carry the same
\* treeID.
C9_DuplicateTreeID ==
    /\ (/\ flagCall = "Set"
        /\ WellFormed(flagTokens)
        /\ Collisions(flagTokens) # {}) =>
           /\ flagErr.kind = "duplicate tree id"
           /\ \E j \in Collisions(flagTokens) :
                 /\ \A k \in Collisions(flagTokens) : j <= k
                 /\ flagErr.treeID = ShardOf(flagTokens, j).TreeID
    /\ (/\ flagCall = "Set"
        /\ ~WellFormed(flagTokens)
        /\ \E j, k \in 1 .. Len(flagTokens) :
              /\ j < k
              /\ ReadsAsShard(flagTokens[j]) /\ ReadsAsShard(flagTokens[k])
              /\ AnyID(flagTokens[j]) = AnyID(flagTokens[k])) =>
           IsFormatError(flagErr)

\* C9 witness: two treeIDs are carried twice, and the error names the one
\* whose second shard comes first (2, written 02), not the one whose first
\* shard comes first
C9_Witness ==
    /\ flagCall = "Set"
    /\ flagTokens = <<Tok_1_100, Tok_2_50, Tok_02_5, Tok_1>>
    /\ flagErr.kind = "duplicate tree id"
    /\ flagErr.treeID = <<0, 0, 0, 0, 2>>

\* C10: Set fails with a format error, and leaves the flag with no ranges,
\* when a token before the last has no "=", when a token before the last has
\* a "=" but does not read as two decimal unsigned 64-bit integers around it,
\* and when the last token is not a bare decimal unsigned 64-bit integer (a
\* last token treeID=length and the empty argument included).
C10_FormatError ==
    (/\ flagCall = "Set"
     /\ \/ \E j \in 1 .. (Len(flagTokens) - 1) :
              \A k \in 1 .. Len(flagTokens[j]) : flagTokens[j][k] # "="
        \/ \E j \in 1 .. (Len(flagTokens) - 1) :
              /\ \E k \in 1 .. Len(flagTokens[j]) : flagTokens[j][k] = "="
              /\ ~HistToken(flagTokens[j])
        \/ ~DecimalU64(flagTokens[Len(flagTokens)])) =>
        /\ IsFormatError(flagErr)
        /\ flagRanges = <<>>

\* C10 witness: "1,2=50" given to a flag that held ranges: the token before
\* the last has no "="
C10_Witness ==
    /\ flagCall = "Set"
    /\ flagTokens = <<Tok_1, Tok_2_50>>
    /\ flagErr.kind = "invalid range flag"
    /\ flagPrev # <<>>

\* C11: the ranges a successful Set leaves hold at least one shard, no two
\* of them carry the same TreeID, the last shard is the active one (it has
\* no length: TreeLength 0) and every shard before it is a historical one
\* that carries the length its token declares; so the active shard is the
\* one at the last position and no other.
C11_SuccessfulParseInvariants ==
    (flagCall = "Set" /\ flagErr = NoError) =>
        LET n == Len(flagRanges)
        IN  /\ n >= 1
            /\ n = Len(flagTokens)
            /\ \A j, k \in 1 .. n : j # k => flagRanges[j].TreeID # flagRanges[k].TreeID
            /\ flagRanges[n].TreeLength = Zero
            /\ DecimalU64(flagTokens[n])
            /\ \A j \in 1 .. (n - 1) :
                  /\ HistToken(flagTokens[j])
                  /\ flagRanges[j].TreeLength = HistLength(flagTokens[j])

\* C11 witness: a successful Set of three shards, two historical ones with
\* lengths 2^64 - 1 and 50 and the active one
C11_Witness ==
    /\ flagCall = "Set"
    /\ flagErr = NoError
    /\ flagTokens = <<Tok_max_max, Tok_2_50, Tok_1>>
    /\ Len(flagRanges) = 3
    /\ flagRanges[2].TreeLength = <<0, 0, 0, 0, 50>>

\* the text before and after the "=" of a historical token
IDText(t) == SubSeq(t, 1, (CHOOSE k \in EqCuts(t) : TRUE) - 1)
LengthText(t) == SubSeq(t, (CHOOSE k \in EqCuts(t) : TRUE) + 1, Len(t))
\* the tokens toks as String is said to render them: the historical ones
\* as they are written, the active one as its treeID, "=" and "0"
RenderedAsWritten(toks) ==
    [j \in 1 .. Len(toks) |->
        IF j < Len(toks) THEN toks[j] ELSE Canon(toks[j]) \o <<"=", "0">>]
\* the tokens toks with every number written without leading zeros, and
\* "=" and "0" after the active one
RenderedCanonical(toks) ==
    [j \in 1 .. Len(toks) |->
        IF j < Len(toks)
        THEN Canon(IDText(toks[j])) \o <<"=">> \o Canon(LengthText(toks[j]))
        ELSE Canon(toks[j]) \o <<"=", "0">>]

\* C12 as stated: after a successful Set, String gives one token per shard
\* in the order of the argument, every historical token character for
\* character as it was written, and the active shard as treeID=0.
\* This fails for a token written with leading zeros: "02=5" is rendered
\* as "2=5".
C12_RenderReproducesTokens ==
    (flagCall = "String" /\ flagErr = NoError) =>
        flagString = Join(RenderedAsWritten(flagTokens))

\* C12, amended: after a successful Set, String gives one token per shard
\* in the order of the argument, every historical token as its treeID and
\* its length in decimal without leading zeros (so a token written without
\* leading zeros is reproduced character for character), and the active
\* shard as treeID=0.
C12_RenderCanonical ==
    (flagCall = "String" /\ flagErr = NoError) =>
        /\ flagString = Join(RenderedCanonical(flagTokens))
        /\ (\A j \in 1 .. (Len(flagTokens) - 1) :
               /\ IDText(flagTokens[j]) = Canon(IDText(flagTokens[j]))
               /\ LengthText(flagTokens[j]) = Canon(LengthText(flagTokens[j]))) =>
              flagString = Join(RenderedAsWritten(flagTokens))

\* C12 witness: "18446744073709551615=18446744073709551615,02=5,1" has been
\* set and rendered
C12_Witness ==
    /\ flagCall = "String"
    /\ flagErr = NoError
    /\ flagTokens = <<Tok_max_max, Tok_02_5, Tok_1>>
    /\ flagString = Tok_max_max \o <<",", "2", "=", "5", ",", "1", "=", "0">>

\* C13: when Set returns an error, the flag holds after the call the ranges
\* it held before the call.
\* The code breaks this: Set empties l.Ranges before it reads its argument,
\* so a flag that held ranges holds none after a Set that fails.
C13_FailedSetKeepsRanges ==
    (flagCall \in {"Set", "SetString"} /\ flagErr # NoError) =>
        flagRanges = flagPrev

(***************************************************************************)
(* Further claims on the backfill                                          *)
(***************************************************************************)
\* the calls to collaborators after position p
CallsAfter(p) == {r \in (p + 1) .. Len(trace) : trace[r].ev = "call"}

\* C14: a write that fails is reported with the error line and nothing
\* more: Redis is left as it was, the next call is the write of the next
\* key of the same entry (if it has one), the index is worked to its end
\* (every pair decoded, every key of every entry written), its outcome is
\* "Errors", and the run goes on with the next index.
C14_WriteFailureTolerated ==
    \A p \in Pos :
        (IsPush(trace[p]) /\ ~trace[p].ok) =>
            LET ix == trace[p].idx
                u == trace[p].uuid
                n == CHOOSE m \in 1 .. Len(KeysOf(u)) : KeysOf(u)[m] = trace[p].key
            IN  /\ p < Len(trace)
                /\ trace[p + 1] = Printf("error inserting UUID", ix, u, trace[p].key)
                /\ redis = Replay(redis0, trace)
                /\ n < Len(KeysOf(u)) =>
                      IF CallsAfter(p) # {}
                      THEN \E r \in CallsAfter(p) :
                              /\ \A q \in CallsAfter(p) : r <= q
                              /\ IsPush(trace[r])
                              /\ trace[r].idx = ix /\ trace[r].uuid = u
                              /\ trace[r].key = KeysOf(u)[n + 1]
                      ELSE pc = "keys" /\ uuid = u /\ Head(keys) = KeysOf(u)[n + 1]
                /\ IF \E q \in Pos : q > p /\ IsOutcome(trace[q]) /\ GetOf(q) = GetOf(p)
                   THEN \A q \in Pos :
                           (q > p /\ IsOutcome(trace[q]) /\ GetOf(q) = GetOf(p)) =>
                              /\ trace[q].msg = "Errors with log index"
                              /\ trace[q].idx = ix
                              /\ IndexComplete(ix, q)
                              /\ GoesOnAfter(q, ix)
                   ELSE /\ pc \in {"range", "keys"}
                        /\ i = ix
                        /\ ~success
                        /\ \A v \in Payload(ix) :
                              \/ v \in payload
                              \/ Before(Len(trace) + 1, ix, v, "unmarshalEntryImpl") # {}

\* C14 witness: the write of the first key of an entry failed, the write
\* of its second key succeeded, another pair of the index was decoded after
\* it, and the next index was retrieved
C14_Witness ==
    \E p \in Pos :
        /\ IsPush(trace[p]) /\ ~trace[p].ok /\ trace[p].key = "k1"
        /\ \E q \in CallsAfter(p) :
              /\ IsPush(trace[q]) /\ trace[q].ok /\ trace[q].key = "k2"
              /\ trace[q].uuid = trace[p].uuid /\ trace[q].idx = trace[p].idx
              /\ \E t \in CallsAfter(q) :
                    /\ IsDecode(trace[t]) /\ trace[t].idx = trace[p].idx
                    /\ \E r \in CallsAfter(t) :
                          IsGet(trace[r]) /\ trace[r].idx = trace[p].idx + 1

\* the retrievals issued and the outcomes emitted for index j
GetsOf(j) == {p \in Pos : IsGet(trace[p]) /\ trace[p].idx = j}
OutcomesOf(j) == {p \in Pos : IsOutcome(trace[p]) /\ trace[p].idx = j}

\* C15: with start <= end and no retrieval failing, the run comes to its
\* end having retrieved every index of [start, end] once and no other, and
\* having emitted one outcome for each: at every moment of the run every
\* retrieval and every outcome is for an index of [start, end], no index
\* has more than one of either, the loop variable is not below start, and
\* a run that has returned has one retrieval and one outcome per index.
\* The code breaks this when end is the largest int: i++ wraps around to
\* the smallest int, the loop condition holds for ever, and the run goes on
\* to retrieve indices outside [start, end].
C15_TerminatesOneRetrievalEach ==
    (/\ startIndex <= endIndex
     /\ \A p \in Pos : IsGet(trace[p]) => trace[p].ok) =>
        /\ \A p \in Pos :
              (IsGet(trace[p]) \/ IsOutcome(trace[p])) =>
                 trace[p].idx \in startIndex .. endIndex
        /\ \A j \in startIndex .. endIndex :
              /\ Cardinality(GetsOf(j)) <= 1
              /\ Cardinality(OutcomesOf(j)) <= 1
        /\ pc \in {"for", "range", "keys"} => i >= startIndex
        /\ pc = "exit" =>
              \A j \in startIndex .. endIndex :
                 /\ Cardinality(GetsOf(j)) = 1
                 /\ Cardinality(OutcomesOf(j)) = 1

\* C16: with every setting given and start above end, the command line is
\* accepted and the for loop is left at once: no retrieval, decode, write
\* or outcome is ever in the trace, Redis is untouched, the only fatal
\* reports possible are those of the two connections, and a run whose
\* connections succeed returns with nothing but the two connections made.
C16_ReversedRangeIsVacuous ==
    (startIndex > endIndex /\ ~Unset) =>
        /\ \A p \in Pos :
              /\ ~PerIndex(trace[p])
              /\ trace[p].ev = "fatal" =>
                    trace[p].msg \in {"redis", "creating rekor client"}
        /\ redis = redis0
        /\ pc \in {"flags", "connect", "client", "for", "exit", "fatal"}
        /\ pc = "for" => i = startIndex /\ i > endIndex
        /\ pc \in {"for", "exit"} =>
              trace = <<Call("radix.New", UnsetIndex, "", "", TRUE),
                        Call("GetRekorClient", UnsetIndex, "", "", TRUE)>>

\* C16 witness: a run over a reversed range of indices the log holds, with
\* entries at both ends, has returned
C16_Witness ==
    /\ pc = "exit"
    /\ startIndex > endIndex
    /\ endIndex >= 0 /\ startIndex <= MaxIndex
    /\ rekorLog[startIndex] # {} /\ rekorLog[endIndex] # {}
    /\ Len(trace) = 2

\* the command line has passed the flag checks
Accepted ==
    \/ pc \in {"connect", "client", "for", "range", "keys", "exit"}
    \/ pc = "fatal" /\ trace[1].ev # "fatal"

\* C17: a command line that is accepted has start >= 0 and end >= 0, and
\* no retrieval is ever issued for an index below zero.
\* The code breaks this: only -1 is read as "not set", so a start or end
\* of -2 passes the checks and indices below zero are retrieved.
C17_NonNegativeIndices ==
    /\ Accepted => startIndex >= 0 /\ endIndex >= 0
    /\ \A p \in Pos : IsGet(trace[p]) => trace[p].idx >= 0

\* the event e is the "Uploaded Redis entry" line
IsUploaded(e) == e.ev = "print" /\ e.msg = "Uploaded Redis entry"

\* C18: an "Uploaded Redis entry" line directly follows a successful write
\* of the entry, index and key it names, and follows nothing else; every
\* successful write is directly followed by its line; a failed write is
\* directly followed by the error line and has no "Uploaded" line.
\* The code breaks this: the "Uploaded" line is printed after the error
\* line of a failed write as well.
C18_UploadedOnlyOnSuccess ==
    /\ \A p \in Pos :
          IsUploaded(trace[p]) =>
             /\ p > 1
             /\ trace[p - 1] = Call("LPUSH", trace[p].idx, trace[p].uuid,
                                    trace[p].key, TRUE)
    /\ \A p \in Pos :
          (IsPush(trace[p]) /\ trace[p].ok) =>
             /\ p < Len(trace)
             /\ trace[p + 1] = Printf("Uploaded Redis entry", trace[p].idx,
                                      trace[p].uuid, trace[p].key)
    /\ \A p \in Pos :
          (IsPush(trace[p]) /\ ~trace[p].ok) =>
             /\ p < Len(trace)
             /\ trace[p + 1] = Printf("error inserting UUID", trace[p].idx,
                                      trace[p].uuid, trace[p].key)
             /\ p + 2 <= Len(trace) => ~IsUploaded(trace[p + 2])

\* the positions of the successful writes to the list at key k
PushesTo(k) == {p \in Pos : IsPush(trace[p]) /\ trace[p].ok /\ trace[p].key = k}

C20_RenderedTextDoesNotParse ==
    (/\ flagCall = "SetString"
     /\ WellFormed(flagTokens)
     /\ Collisions(flagTokens) = {}) =>
        /\ flagInput = flagString
        /\ IsFormatError(flagErr)
        /\ flagErr = Errorf("invalid syntax",
                            Canon(flagTokens[Len(flagTokens)]) \o <<"=", "0">>)
        /\ flagRanges = <<>>

\* C20 witness: "18446744073709551615=18446744073709551615,02=5,1" has been
\* set, rendered and the rendered text given to Set, which refused "1=0"
C20_Witness ==
    /\ flagCall = "SetString"
    /\ flagTokens = <<Tok_max_max, Tok_02_5, Tok_1>>
    /\ flagPrev # <<>>
    /\ flagErr = Errorf("invalid syntax", <<"1", "=", "0">>)

====
